---- MODULE Spec2Model ----
(***************************************************************************)
(* Model of the worker offload subsystem of src/OPFSQuery.js: the request  *)
(* correlator (workerResponseHandler), the worker pool (activeWorkers,     *)
(* idleWorkers, startWorker, completeWork), the idle reclamation timer     *)
(* (clearIdleWorkers) and the worker script (workerContent).               *)
(*                                                                         *)
(* The coordinator is single threaded: every action of the coordinator is  *)
(* one run-to-completion task (the code between two awaits).  Workers run  *)
(* in parallel with it and with each other; messages between one worker    *)
(* and the coordinator are FIFO, messages of different workers are not     *)
(* ordered with respect to each other.                                     *)
(***************************************************************************)
EXTENDS Integers, Sequences, FiniteSets, TLC

\* ---------------------------------------------------------------- bounds
MaxCalls == 3       \* number of API calls issued in one behaviour
MaxLen == 2         \* largest file size / offset the inputs mention
TickMs == 5000      \* granularity of the clock, in milliseconds

\* ------------------------------------------------------- program constants
QuietMs == 10000    \* setTimeout delay of clearIdleWorkers

Calls == 1..MaxCalls
Workers == 1..MaxCalls          \* a call creates at most one worker
Hole == 0                       \* the empty slot left by idleWorkers.length = 1

ExistingFile == "a"
MissingFile == "b"
FileNames == {ExistingFile, MissingFile}

ShareableOps == {"getSize", "read"}
ExclusiveOps == {"truncate", "write"}
Ops == ShareableOps \cup ExclusiveOps

\* an option field: absent, a number, or a value that is not a number
Missing == [kind |-> "missing", v |-> 0]
NotNum == [kind |-> "str", v |-> 0]
Num(k) == [kind |-> "num", v |-> k]

\* the buffer handed to writeFile: <<>> stands for no buffer (undefined)
NoData == <<>>
Input(op, file, opt, data) == [op |-> op, file |-> file, opt |-> opt, data |-> data]

\* the arguments the calls are issued with
PoolInputs ==
  {Input("getSize", ExistingFile, Missing, NoData),
   Input("write", ExistingFile, Missing, <<7>>)}
CoreInputs ==
  {Input(op, f, Missing, NoData) : op \in {"getSize", "truncate"}, f \in FileNames}
HandleInputs ==
  {Input("getSize", ExistingFile, Missing, NoData),
   Input("read", ExistingFile, Num(MaxLen + 1), NoData)}
ReadInputs ==
  {Input("read", ExistingFile, o, NoData) :
     o \in {Missing} \cup {Num(k) : k \in 0..(MaxLen + 1)}}
  \cup {Input("truncate", ExistingFile, Num(1), NoData)}
TruncInputs ==
  {Input("truncate", ExistingFile, o, NoData) :
     o \in {Missing, NotNum, Num(-1)} \cup {Num(k) : k \in 0..MaxLen}}
  \cup {Input("getSize", ExistingFile, Missing, NoData)}

\* outcomes of a call / contents of a response
NoOut == [ok |-> FALSE, num |-> 0, buf |-> <<>>, err |-> "none"]
OkNum(n) == [ok |-> TRUE, num |-> n, buf |-> <<>>, err |-> ""]
OkBuf(b) == [ok |-> TRUE, num |-> 0, buf |-> b, err |-> ""]
Err(e) == [ok |-> FALSE, num |-> 0, buf |-> <<>>, err |-> e]

VARIABLES
  calls,                 \* per API call: its position and its arguments
  workerResponseHandler, \* id -> waiters (the resolve/reject pairs, by call)
  activeWorkers,         \* sequence of workers
  idleWorkers,           \* sequence of workers (or Hole)
  timeout,               \* is the reclamation timer pending
  timerAge,              \* ms since the pending timer was set (capped)
  arrivalAge,            \* ms since the last startWorker (capped)
  completionAge,         \* ms since the last response was dispatched (capped)
  wstate,                \* per worker: "none", "ready", "closing", "dead"
  inbox,                 \* per worker: commands posted and not yet received
  outbox,                \* per worker: responses posted and not yet received
  held,                  \* per worker: the command whose handle it holds, or 0
  fs,                    \* content of the existing file
  lock,                  \* worker holding the exclusive access handle, or 0
  log                    \* history, per command (named by its dispatching call)

vars == <<calls, workerResponseHandler, activeWorkers, idleWorkers, timeout,
          timerAge, arrivalAge, completionAge, wstate, inbox, outbox, held,
          fs, lock, log>>

\* the request id: `${workingDirectory}/${fileName}_${command}`, in one
\* working directory; the four suffixes are fixed and none ends another, so
\* two ids are equal exactly when file name and command are
Id(file, op) == <<file, op>>

\* messages posted to a worker directly: well formed, lacking one of id,
\* command and fileHandle, and of a command kind the script has no case for
NoId == <<>>
Raw(id, command, fileHandle) ==
  [id |-> id, command |-> command, fileHandle |-> fileHandle,
   opt |-> Missing, data |-> NoData]
RawInputs ==
  {Raw(Id(ExistingFile, "getSize"), "getSize", ExistingFile),
   Raw(NoId, "getSize", ExistingFile),
   Raw(Id(ExistingFile, "getSize"), "", ExistingFile),
   Raw(Id(ExistingFile, "getSize"), "getSize", ""),
   Raw(Id(ExistingFile, "flush"), "flush", ExistingFile)}

NoCall == [pc |-> "new", op |-> "getSize", file |-> ExistingFile, opt |-> Missing,
           data |-> <<>>, out |-> NoOut, by |-> 0,
           openBefore |-> {}, doneBefore |-> {}]

NoLog == [sent |-> FALSE, acquired |-> FALSE, closes |-> 0, responses |-> 0,
          openAtRespond |-> FALSE, worker |-> 0, released |-> 0, failed |-> FALSE,
          answered |-> FALSE, threw |-> FALSE,
          seen |-> <<>>, after |-> <<>>,
          msg |-> <<>>, received |-> FALSE, reply |-> NoOut]

InitContent == [i \in 1..MaxLen |-> i]

Ids == {Id(f, op) : f \in FileNames, op \in Ops}
NoEntry == [present |-> FALSE, cb |-> <<>>]
Entry(cb) == [present |-> TRUE, cb |-> cb]

Init ==
  /\ calls = [c \in Calls |-> NoCall]
  /\ workerResponseHandler = [i \in Ids |-> NoEntry]
  /\ activeWorkers = <<>>
  /\ idleWorkers = <<>>
  /\ timeout = FALSE
  /\ timerAge = 0
  /\ arrivalAge = QuietMs
  /\ completionAge = QuietMs
  /\ wstate = [w \in Workers |-> "none"]
  /\ inbox = [w \in Workers |-> <<>>]
  /\ outbox = [w \in Workers |-> <<>>]
  /\ held = [w \in Workers |-> 0]
  /\ fs = InitContent
  /\ lock = 0
  /\ log = [c \in Calls |-> NoLog]

\* ------------------------------------------------------------ worker pool

Min(a, b) == IF a < b THEN a ELSE b

\* a pop that finds nothing
PoppedNothing == Hole

\* idleWorkers.pop(): the last element, undefined (Hole) when there is none
Popped == IF Len(idleWorkers) = 0 THEN Hole ELSE idleWorkers[Len(idleWorkers)]
AfterPop ==
  IF Len(idleWorkers) = 0 THEN <<>>
  ELSE SubSeq(idleWorkers, 1, Len(idleWorkers) - 1)

\* new Worker(url): the next worker that was never constructed
NewWorker ==
  CHOOSE w \in Workers :
    wstate[w] = "none" /\ \A v \in Workers : v < w => wstate[v] # "none"

\* let worker = idleWorkers.pop(); if (!worker) { worker = new Worker(url) }
Acquired == IF Popped # Hole THEN Popped ELSE NewWorker

\* startWorker(msgData): take or create a worker, mark it active, post msgData
startWorker(msg) ==
  /\ idleWorkers' = AfterPop
  /\ activeWorkers' = Append(activeWorkers, Acquired)
  /\ wstate' = IF Popped # Hole THEN wstate
               ELSE [wstate EXCEPT ![NewWorker] = "ready"]
  /\ inbox' = [inbox EXCEPT ![Acquired] = Append(@, msg)]
  /\ arrivalAge' = 0
  /\ log' = [log EXCEPT ![msg.by] =
               [@ EXCEPT !.sent = TRUE, !.worker = Acquired, !.msg = msg]]

IndexOf(seq, x) ==
  IF \E i \in 1..Len(seq) : seq[i] = x
  THEN CHOOSE i \in 1..Len(seq) : seq[i] = x /\ \A j \in 1..(i - 1) : seq[j] # x
  ELSE 0

Splice(seq, i) == SubSeq(seq, 1, i - 1) \o SubSeq(seq, i + 1, Len(seq))

\* completeWork(worker): active -> idle
completeWork(w) ==
  /\ activeWorkers' = IF IndexOf(activeWorkers, w) > 0
                      THEN Splice(activeWorkers, IndexOf(activeWorkers, w))
                      ELSE activeWorkers
  /\ idleWorkers' = Append(idleWorkers, w)

\* a clearIdleWorkers that leaves a pending timer running
clearIdleWorkersNoRestart ==
  /\ timeout' = TRUE
  /\ timerAge' = IF timeout THEN timerAge ELSE 0

\* clearIdleWorkers(): clearTimeout(timeout); timeout = setTimeout(..., 10000)
clearIdleWorkers ==
  /\ timeout' = TRUE
  /\ timerAge' = 0

\* the timer callback of clearIdleWorkers: terminate idleWorkers[1..l-1]
\* (0-based), then idleWorkers.length = 1
Terminated == {idleWorkers[i] : i \in 2..Len(idleWorkers)}
\* a timer callback that terminates the workers and keeps them in the list
IdleKept == idleWorkers

\* idleWorkers.length = 1
IdleAfterTimer ==
  IF Len(idleWorkers) = 0 THEN <<Hole>> ELSE <<idleWorkers[1]>>

\* ------------------------------------------------------------ worker script

At(opt) == IF opt.kind = "num" THEN opt.v ELSE 0
Zeros(n) == [i \in 1..n |-> 0]

\* case "read": new ArrayBuffer(fileSize - (option.at || 0)); read(buffer, option)
ReadResult(content, opt) ==
  IF Len(content) - At(opt) < 0 THEN Err("RangeError")
  ELSE OkBuf(SubSeq(content, At(opt) + 1, Len(content)))

\* case "truncate": typeof option.size === "number" && option.size >= 0
ValidSize(opt) == opt.kind = "num" /\ opt.v >= 0
Resize(content, n) ==
  IF n <= Len(content) THEN SubSeq(content, 1, n)
  ELSE content \o Zeros(n - Len(content))
TruncateContent(content, opt) ==
  IF ValidSize(opt) THEN Resize(content, opt.v) ELSE content
TruncateResult(opt) == IF ValidSize(opt) THEN OkNum(opt.v) ELSE OkNum(0)

\* case "write": if (data) { writeSize = accessHandle.write(data, option) }
WriteContent(content, data, opt) ==
  IF data = <<>> THEN content
  ELSE LET base == IF At(opt) > Len(content) THEN Resize(content, At(opt))
                   ELSE content
           end == At(opt) + Len(data)
       IN SubSeq(base, 1, At(opt)) \o data \o SubSeq(base, end + 1, Len(base))
WriteResult(data) == OkNum(Len(data))

\* the response the worker posts for a command, the handle acquired
Respond(msg, content) ==
  CASE msg.command = "getSize" -> OkNum(Len(content))
    [] msg.command = "read" -> ReadResult(content, msg.opt)
    [] msg.command = "truncate" -> TruncateResult(msg.opt)
    [] msg.command = "write" -> WriteResult(msg.data)

Operate(msg, content) ==
  CASE msg.command = "truncate" -> TruncateContent(content, msg.opt)
    [] msg.command = "write" -> WriteContent(content, msg.data, msg.opt)
    [] OTHER -> content

\* ------------------------------------------------------------- coordinator

Command(c) ==
  [id |-> Id(calls[c].file, calls[c].op), command |-> calls[c].op,
   fileHandle |-> calls[c].file, opt |-> calls[c].opt, data |-> calls[c].data,
   by |-> c]

\* a getFileSize that replaces the waiters instead of joining them
RegisterOverwrite(id, c) ==
  [workerResponseHandler EXCEPT ![id] = Entry(<<c>>)]

\* workerResponseHandler[id].push(resolve, reject) / = [resolve, reject]
Register(id, c) ==
  IF workerResponseHandler[id].present
  THEN [workerResponseHandler EXCEPT ![id] = Entry(Append(@.cb, c))]
  ELSE [workerResponseHandler EXCEPT ![id] = Entry(<<c>>)]

\* history: the calls of an identity issued and not settled, the calls settled
InFlight(id) ==
  {d \in Calls : calls[d].pc \in {"lookup", "wait"} /\ ~log[d].answered
                 /\ Id(calls[d].file, calls[d].op) = id}
Settled == {d \in Calls : calls[d].pc = "done"}

\* the synchronous part of getFileSize / readFile / truncateFile / writeFile,
\* up to the await of getFileHandle
Invoke(c, inputs) ==
  /\ calls[c].pc = "new"
  /\ \A d \in Calls : d < c => calls[d].pc # "new"
  /\ \E in \in inputs :
       LET op == in.op
           id == Id(in.file, op)
           args == [calls[c] EXCEPT !.op = op, !.file = in.file, !.opt = in.opt,
                                    !.data = in.data,
                                    !.openBefore = InFlight(id),
                                    !.doneBefore = Settled]
       IN IF op \in ShareableOps
          THEN /\ workerResponseHandler' = Register(id, c)
               /\ calls' = [calls EXCEPT ![c] =
                     [args EXCEPT !.pc = IF workerResponseHandler[id].present
                                         THEN "wait" ELSE "lookup"]]
          ELSE /\ UNCHANGED workerResponseHandler
               /\ calls' = [calls EXCEPT ![c] =
                     IF workerResponseHandler[id].present
                     THEN [args EXCEPT !.pc = "done", !.out = Err("Busy")]
                     ELSE [args EXCEPT !.pc = "lookup"]]
  /\ UNCHANGED <<activeWorkers, idleWorkers, timeout, timerAge, arrivalAge, completionAge,
                 wstate, inbox, outbox, held, fs, lock, log>>

\* the continuation after `await this.getFileHandle(fileName)`
LookupDone(c) ==
  /\ calls[c].pc = "lookup"
  /\ IF calls[c].file = ExistingFile
     THEN /\ startWorker(Command(c))
          /\ workerResponseHandler' =
               IF calls[c].op \in ExclusiveOps
               THEN [workerResponseHandler EXCEPT
                       ![Id(calls[c].file, calls[c].op)] = Entry(<<c>>)]
               ELSE workerResponseHandler
          /\ calls' = [calls EXCEPT ![c].pc = "wait"]
     ELSE \* getFileHandle rejects with NotFoundError
          /\ calls' = [calls EXCEPT ![c] =
               IF @.op \in ExclusiveOps
               THEN [@ EXCEPT !.pc = "done", !.out = Err("NotFound")]
               ELSE [@ EXCEPT !.pc = "wait"]]
          /\ log' = [log EXCEPT ![c].failed = TRUE]
          /\ UNCHANGED <<workerResponseHandler, activeWorkers, idleWorkers,
                         arrivalAge, wstate, inbox>>
  /\ UNCHANGED <<timeout, timerAge, completionAge, outbox, held, fs, lock>>

\* handleWorkerResponse(data): every waiter of data.id is resolved / rejected
handleWorkerResponse(msg) ==
  [c \in Calls |->
     IF \E i \in 1..Len(workerResponseHandler[msg.id].cb) :
          workerResponseHandler[msg.id].cb[i] = c
     THEN [calls[c] EXCEPT !.pc = "done", !.out = msg.out, !.by = msg.by]
     ELSE calls[c]]

\* worker.onmessage: handleWorkerResponse; completeWork; clearIdleWorkers
Deliver(w) ==
  /\ outbox[w] # <<>>
  /\ outbox' = [outbox EXCEPT ![w] = Tail(@)]
  /\ LET msg == Head(outbox[w])
     IN IF msg.id \in Ids /\ workerResponseHandler[msg.id].present
        THEN /\ calls' = handleWorkerResponse(msg)
             /\ workerResponseHandler' =
                  [workerResponseHandler EXCEPT ![msg.id] = NoEntry]
             /\ completeWork(w)
             /\ clearIdleWorkers
             /\ completionAge' = 0
             /\ log' = [log EXCEPT ![msg.by] =
                          [@ EXCEPT !.released = @ + 1, !.answered = TRUE]]
        ELSE \* cb is undefined: cb.length throws, the handler is abandoned
             /\ log' = [log EXCEPT ![msg.by].answered = TRUE]
             /\ UNCHANGED <<calls, workerResponseHandler, activeWorkers,
                            idleWorkers, timeout, timerAge, completionAge>>
  /\ UNCHANGED <<arrivalAge, wstate, inbox, held, fs, lock>>

\* the callback of the timer set by clearIdleWorkers
TimerFire ==
  /\ timeout
  /\ timerAge >= QuietMs
  /\ timeout' = FALSE
  /\ timerAge' = 0
  /\ wstate' = [w \in Workers |->
                  IF w \in Terminated THEN "dead" ELSE wstate[w]]
  /\ idleWorkers' = IdleAfterTimer
  /\ UNCHANGED <<calls, workerResponseHandler, activeWorkers, arrivalAge, completionAge,
                 inbox, outbox, held, fs, lock, log>>

\* time passes; a worker between postMessage and close is running
\* synchronous code, which takes no time
Tick ==
  /\ \A w \in Workers : wstate[w] # "closing"
  /\ \/ timeout /\ timerAge < QuietMs
     \/ arrivalAge < QuietMs
     \/ completionAge < QuietMs
  /\ timerAge' = IF timeout THEN Min(timerAge + TickMs, QuietMs) ELSE 0
  /\ arrivalAge' = Min(arrivalAge + TickMs, QuietMs)
  /\ completionAge' = Min(completionAge + TickMs, QuietMs)
  /\ UNCHANGED <<calls, workerResponseHandler, activeWorkers, idleWorkers,
                 timeout, wstate, inbox, outbox, held, fs, lock, log>>

\* ------------------------------------------------------------------ worker

\* a validation that forgets the file handle
MissingIdOrCommand(msg) ==
  msg.id = NoId \/ msg.command = ""

\* if (!id || !command || !fileHandle)
MissingParameter(msg) ==
  msg.id = NoId \/ msg.command = "" \/ msg.fileHandle = ""

\* self.onmessage up to and including respond(...); a command kind without
\* a case leaves the switch by `default: break` and posts nothing
WorkerExec(w) ==
  /\ wstate[w] = "ready"
  /\ inbox[w] # <<>>
  /\ inbox' = [inbox EXCEPT ![w] = Tail(@)]
  /\ LET msg == Head(inbox[w])
         post(out) == [id |-> msg.id, out |-> out, by |-> msg.by]
         missing == Err("missing id | command | fileHandle!")
         taken == Err("NoModificationAllowedError")
     IN IF MissingParameter(msg)
        THEN /\ outbox' = [outbox EXCEPT ![w] = Append(@, post(missing))]
             /\ log' = [log EXCEPT ![msg.by] =
                          [@ EXCEPT !.responses = @ + 1, !.received = TRUE,
                                    !.reply = missing]]
             /\ UNCHANGED <<wstate, held, fs, lock>>
        ELSE IF lock # 0
        THEN \* createSyncAccessHandle throws: catch, respond(null, error)
             /\ outbox' = [outbox EXCEPT ![w] = Append(@, post(taken))]
             /\ log' = [log EXCEPT ![msg.by] =
                          [@ EXCEPT !.responses = @ + 1, !.received = TRUE,
                                    !.reply = taken]]
             /\ UNCHANGED <<wstate, held, fs, lock>>
        ELSE IF msg.command \notin Ops
        THEN /\ lock' = w
             /\ held' = [held EXCEPT ![w] = msg.by]
             /\ wstate' = [wstate EXCEPT ![w] = "closing"]
             /\ log' = [log EXCEPT ![msg.by] =
                          [@ EXCEPT !.acquired = TRUE, !.received = TRUE,
                                    !.seen = fs, !.after = fs]]
             /\ UNCHANGED <<outbox, fs>>
        ELSE /\ lock' = w
             /\ held' = [held EXCEPT ![w] = msg.by]
             /\ fs' = IF Respond(msg, fs).ok THEN Operate(msg, fs) ELSE fs
             /\ outbox' = [outbox EXCEPT ![w] = Append(@, post(Respond(msg, fs)))]
             /\ wstate' = [wstate EXCEPT ![w] = "closing"]
             /\ log' = [log EXCEPT ![msg.by] =
                          [@ EXCEPT !.acquired = TRUE, !.responses = @ + 1,
                                    !.received = TRUE,
                                    !.reply = Respond(msg, fs),
                                    !.openAtRespond = TRUE,
                                    !.threw = ~Respond(msg, fs).ok,
                                    !.seen = fs, !.after = fs']]
  /\ UNCHANGED <<calls, workerResponseHandler, activeWorkers, idleWorkers,
                 timeout, timerAge, arrivalAge, completionAge>>

\* a worker that closes the handle at the end of the try block only
WorkerCloseOnSuccess(w) ==
  /\ wstate[w] = "closing"
  /\ wstate' = [wstate EXCEPT ![w] = "ready"]
  /\ held' = [held EXCEPT ![w] = 0]
  /\ lock' = IF log[held[w]].threw THEN lock ELSE 0
  /\ log' = IF log[held[w]].threw THEN log
            ELSE [log EXCEPT ![held[w]].closes = @ + 1]
  /\ UNCHANGED <<calls, workerResponseHandler, activeWorkers, idleWorkers,
                 timeout, timerAge, arrivalAge, completionAge, inbox, outbox, fs>>

\* finally { if (accessHandle) accessHandle.close() }
WorkerClose(w) ==
  /\ wstate[w] = "closing"
  /\ wstate' = [wstate EXCEPT ![w] = "ready"]
  /\ lock' = 0
  /\ held' = [held EXCEPT ![w] = 0]
  /\ log' = [log EXCEPT ![held[w]].closes = @ + 1]
  /\ UNCHANGED <<calls, workerResponseHandler, activeWorkers, idleWorkers,
                 timeout, timerAge, arrivalAge, completionAge, inbox, outbox, fs>>

Work ==
  \/ \E c \in Calls : LookupDone(c)
  \/ \E w \in Workers : Deliver(w)
  \/ \E w \in Workers : WorkerExec(w)
  \/ \E w \in Workers : WorkerClose(w)

\* the request correlator under contention, lookups that fail included;
\* behaviours shorter than the quiet period
Next == (\E c \in Calls : Invoke(c, CoreInputs)) \/ Work
Spec == Init /\ [][Next]_vars

\* the pool and its reclamation timer
NextPool == (\E c \in Calls : Invoke(c, PoolInputs)) \/ Work \/ TimerFire \/ Tick
SpecPool == Init /\ [][NextPool]_vars

\* readFile with its offsets, on a file whose size changes; behaviours
\* shorter than the quiet period
NextRead == (\E c \in Calls : Invoke(c, ReadInputs)) \/ Work
SpecRead == Init /\ [][NextRead]_vars

\* truncateFile with its sizes, and getFileSize; behaviours shorter than the
\* quiet period
NextTrunc == (\E c \in Calls : Invoke(c, TruncInputs)) \/ Work
SpecTrunc == Init /\ [][NextTrunc]_vars

\* commands that succeed, that throw after the handle is acquired and that
\* find the handle taken; behaviours shorter than the quiet period
NextHandle == (\E c \in Calls : Invoke(c, HandleInputs)) \/ Work
SpecHandle == Init /\ [][NextHandle]_vars

\* a host of the worker script posting a message of its own making
Post(c) ==
  /\ calls[c].pc = "new"
  /\ \A d \in Calls : d < c => calls[d].pc # "new"
  /\ \E m \in RawInputs :
       startWorker([id |-> m.id, command |-> m.command,
                    fileHandle |-> m.fileHandle, opt |-> m.opt,
                    data |-> m.data, by |-> c])
  /\ calls' = [calls EXCEPT ![c].pc = "posted"]
  /\ UNCHANGED <<workerResponseHandler, timeout, timerAge, completionAge,
                 outbox, held, fs, lock>>

\* the worker script under every shape of message; no handler is registered,
\* so worker.onmessage throws at cb.length on every response
NextScript ==
  \/ \E c \in Calls : Post(c)
  \/ \E w \in Workers : Deliver(w)
  \/ \E w \in Workers : WorkerExec(w)
  \/ \E w \in Workers : WorkerClose(w)
SpecScript == Init /\ [][NextScript]_vars

\* ------------------------------------------------------------------ claims

IdOf(c) == Id(calls[c].file, calls[c].op)
Issued(c) == calls[c].pc # "new"
Done(c) == calls[c].pc = "done"
Registered(c) ==
  \E i \in 1..Len(workerResponseHandler[IdOf(c)].cb) :
    workerResponseHandler[IdOf(c)].cb[i] = c
\* the commands of an identity posted to a worker and not yet answered
Executing(id) == {d \in Calls : IdOf(d) = id /\ log[d].sent /\ ~log[d].answered}

\* C1: getFileSize (readFile) calls issued while one of the same identity is
\* pending dispatch no command of their own, stay registered as waiters, and
\* are settled by the one command of the call that found no entry, each with
\* that command's outcome; an identity never has two commands in flight.
C1_Coalescing ==
  \A c \in Calls :
    (Issued(c) /\ calls[c].op \in ShareableOps) =>
      /\ Cardinality(Executing(IdOf(c))) <= 1
      /\ calls[c].openBefore # {} => ~log[c].sent
      /\ ~Done(c) => Registered(c)
      /\ Done(c) =>
           LET d == calls[c].by
           IN /\ d \in Calls
              /\ IdOf(d) = IdOf(c)
              /\ calls[d].openBefore = {}
              /\ c # d => d \in calls[c].openBefore
              /\ log[d].sent /\ log[d].responses = 1
              /\ Done(d) /\ calls[d].by = d
              /\ calls[d].out = calls[c].out

\* two callers of one identity settled by one execution, the later one a waiter
C1_Witness ==
  \E c, d \in Calls :
    /\ c # d /\ Done(c) /\ Done(d)
    /\ calls[c].op = "getSize" /\ calls[d].op = "getSize"
    /\ calls[c].by = d /\ calls[d].by = d
    /\ calls[c].out.ok /\ ~log[c].sent

\* C2: a writeFile (truncateFile) issued while an earlier call of the same
\* identity is issued and not yet answered is rejected as Busy at once and
\* posts no command.
C2_BusyWhileInFlight ==
  \A c \in Calls :
    (Issued(c) /\ calls[c].op \in ExclusiveOps /\ calls[c].openBefore # {}) =>
      /\ Done(c) /\ calls[c].out = Err("Busy")
      /\ ~log[c].sent

\* nothing is left to do: every call issued, every lookup finished, every
\* command processed, every message delivered
Quiescent ==
  /\ \A c \in Calls : calls[c].pc \notin {"new", "lookup"}
  /\ \A w \in Workers :
       inbox[w] = <<>> /\ outbox[w] = <<>> /\ wstate[w] # "closing"

\* C3: once every command is processed and every message delivered, every
\* call has settled.
C3_AllSettle == Quiescent => \A c \in Calls : Done(c)

\* the worker is between acquiring the handle for command c and closing it
Handling(c) == \E w \in Workers : held[w] = c

\* C5: a command whose worker acquired the access handle has its handle
\* closed exactly once when the worker has finished handling it, whether the
\* operation succeeded or threw; a command that acquired none closes none; a
\* worker waiting for its next command holds no handle.
C5_HandleHygiene ==
  /\ \A c \in Calls :
       /\ log[c].closes <= 1
       /\ ~log[c].acquired => log[c].closes = 0
       /\ (log[c].acquired /\ ~Handling(c)) => log[c].closes = 1
       /\ Handling(c) => log[c].closes = 0
  /\ \A w \in Workers : wstate[w] # "closing" => (held[w] = 0 /\ lock # w)
  /\ lock # 0 => (wstate[lock] = "closing" /\ held[lock] # 0)

\* a command that threw after acquiring the handle and one that succeeded,
\* both closed once
C5_Witness ==
  \E c, d \in Calls :
    /\ log[c].acquired /\ log[c].threw /\ log[c].closes = 1
    /\ log[d].acquired /\ ~log[d].threw /\ log[d].closes = 1

\* C4: a readFile call with offset k (none: 0) that resolves, the command
\* that answered it having found a file of size S >= k, holds a buffer of
\* length S - k with the file's bytes k+1 .. S.
C4_ReadOffsetLaw ==
  \A c \in Calls :
    (Done(c) /\ calls[c].op = "read" /\ calls[c].out.ok) =>
      LET content == log[calls[c].by].seen
          k == At(calls[c].opt)
          buf == calls[c].out.buf
      IN k <= Len(content) =>
           /\ Len(buf) = Len(content) - k
           /\ \A i \in 1..Len(buf) : buf[i] = content[k + i]

\* the commands posted to a worker whose response no handler has taken yet
Unanswered == {c \in Calls : log[c].sent /\ ~log[c].answered}

\* C6: when a command's response has arrived its worker has been moved from
\* activeWorkers to idleWorkers exactly once; activeWorkers holds only
\* workers whose command has not been responded to.
C6_WorkerRelease ==
  /\ \A c \in Calls : log[c].answered => log[c].released = 1
  /\ \A i \in 1..Len(activeWorkers) :
       \E c \in Unanswered : log[c].worker = activeWorkers[i]

Live(w) == w # Hole /\ wstate[w] \in {"ready", "closing"}
LiveIdle == {i \in 1..Len(idleWorkers) : Live(idleWorkers[i])}
\* every call made so far is over and its command, if any, responded to
AllComplete ==
  /\ \E c \in Calls : log[c].answered
  /\ \A c \in Calls : calls[c].pc # "lookup"
  /\ Unanswered = {}

\* C7: with every command completed, idleWorkers holds every live worker
\* while the timer is pending, and after the timer has fired it holds exactly
\* one worker, which is live, every other worker being terminated.
C7_PoolReclamation ==
  AllComplete =>
    IF timeout
    THEN \A w \in Workers : Live(w) => \E i \in 1..Len(idleWorkers) : idleWorkers[i] = w
    ELSE /\ Len(idleWorkers) = 1
         /\ Cardinality(LiveIdle) = 1
         /\ \A w \in Workers : Live(w) => w = idleWorkers[1]

\* C8: once a worker has been created, whenever no command is in flight
\* idleWorkers holds at least one live worker.
C8_OneWarmWorker ==
  ((\E w \in Workers : wstate[w] # "none") /\ Unanswered = {}) => LiveIdle # {}

\* the step in which the reclamation timer fires
TimerFires == timeout /\ ~timeout'

\* C9: the timer never fires less than the quiet period after the most
\* recent command arrival (startWorker), nor while a command is in flight
\* within that period.
C9_ResetOnArrival == [][TimerFires => arrivalAge >= QuietMs]_vars

\* C9 as the code has it: the timer never fires less than the quiet period
\* after the most recent response that was dispatched to its waiters.
C9_ResetOnCompletion == [][TimerFires => completionAge >= QuietMs]_vars

\* the timer has fired while a command that arrived after the last dispatched
\* response was in flight, a full quiet period after that response
C9_Witness ==
  /\ ~timeout
  /\ completionAge >= QuietMs
  /\ arrivalAge < QuietMs
  /\ idleWorkers = <<Hole>>
  /\ Unanswered # {}

\* C10: a getFileSize issued after a truncateFile with a valid size T has
\* resolved resolves with T (no other call changing the file); a
\* truncateFile with a missing, non-numeric or negative size resolves with 0
\* and its command leaves the file as it found it.
OnlyMutation(t) ==
  \A m \in Calls :
    (m # t /\ Issued(m) /\ calls[m].op \in ExclusiveOps) => ~ValidSize(calls[m].opt)
C10_TruncateSemantics ==
  /\ \A t, g \in Calls :
       ( /\ calls[t].op = "truncate" /\ ValidSize(calls[t].opt)
         /\ Done(t) /\ calls[t].out.ok /\ OnlyMutation(t)
         /\ calls[g].op = "getSize" /\ calls[g].file = calls[t].file
         /\ t \in calls[g].doneBefore /\ Done(g) /\ calls[g].out.ok )
       => calls[g].out.num = calls[t].opt.v
  /\ \A t \in Calls :
       ( /\ calls[t].op = "truncate" /\ ~ValidSize(calls[t].opt)
         /\ Done(t) /\ calls[t].out.ok )
       => /\ calls[t].out.num = 0
          /\ log[t].acquired => Len(log[t].after) = Len(log[t].seen)

\* the command message c carried lacks id, command or fileHandle
Lacking(c) ==
  /\ log[c].sent
  /\ \/ log[c].msg.id = NoId
     \/ log[c].msg.command = ""
     \/ log[c].msg.fileHandle = ""

\* C11: a command message lacking id, command or fileHandle, once received,
\* has been answered by one response carrying the error and no result, and
\* its worker has neither acquired nor closed an access handle for it.
C11_MissingParameter ==
  \A c \in Calls :
    (Lacking(c) /\ log[c].received) =>
      /\ log[c].responses = 1
      /\ ~log[c].reply.ok
      /\ log[c].reply = Err("missing id | command | fileHandle!")
      /\ ~log[c].acquired /\ log[c].closes = 0 /\ ~Handling(c)
      /\ lock # log[c].worker

\* messages lacking the id, the command and the file handle were all received
C11_Witness ==
  \E c, d, e \in Calls :
    /\ log[c].received /\ log[d].received /\ log[e].received
    /\ log[c].sent /\ log[c].msg.id = NoId
    /\ log[d].sent /\ log[d].msg.command = ""
    /\ log[e].sent /\ log[e].msg.fileHandle = ""

\* call c was issued after every other call of its identity had been settled
\* by the response of its own command, and there was such a call
RetryAfterCompletion(c) ==
  /\ Issued(c) /\ calls[c].op \in ExclusiveOps
  /\ \E d \in calls[c].doneBefore : IdOf(d) = IdOf(c)
  /\ \A d \in Calls :
       (d # c /\ Issued(d) /\ IdOf(d) = IdOf(c)) =>
         /\ d \in calls[c].doneBefore
         /\ log[d].answered /\ calls[d].by = d

\* C12: a truncateFile (writeFile) issued after the earlier requests of its
\* identity have been responded to is not rejected as Busy, dispatches a
\* command of its own and, when it settles, resolves with the result of that
\* command, whose worker acquired the access handle.
C12_RetryAfterCompletion ==
  \A c \in Calls :
    RetryAfterCompletion(c) =>
      /\ calls[c].out # Err("Busy")
      /\ calls[c].pc = "wait" => log[c].sent
      /\ log[c].received => log[c].acquired
      /\ Done(c) => (calls[c].out.ok /\ calls[c].by = c /\ log[c].acquired)

\* C13: when the response of a command has been posted the access handle its
\* worker acquired for it is closed already, on success and on error alike;
\* no response reaches the coordinator while the command's handle is open.
C13_ReleaseBeforeRespond ==
  \A c \in Calls :
    /\ (log[c].responses > 0 /\ log[c].acquired) =>
         (log[c].closes = 1 /\ ~Handling(c))
    /\ log[c].answered => ~Handling(c)

\* the calls whose file-handle lookup is in progress
Resolving == {c \in Calls : calls[c].pc = "lookup"}

\* C14: an identity has a workerResponseHandler entry only while a request
\* of that identity is awaiting dispatch or has a command in flight; with no
\* lookup in progress and no command in flight the table is empty.
C14_EntryLifecycle ==
  /\ \A id \in Ids :
       workerResponseHandler[id].present =>
         \E c \in Resolving \cup Unanswered : IdOf(c) = id
  /\ (Resolving = {} /\ Unanswered = {}) =>
       \A id \in Ids : ~workerResponseHandler[id].present

\* C15: at any time at most one command of a given request id is in flight
\* (posted to a worker and not yet answered).
C15_OneExecutionPerIdentity ==
  \A id \in Ids : Cardinality(Executing(id)) <= 1

\* C16: a message a worker has received and finished handling has been
\* answered by exactly one response, whatever its command kind and whether
\* the handle was acquired or not; no message is answered twice.
C16_OneResponsePerCommand ==
  \A c \in Calls :
    /\ log[c].responses <= 1
    /\ (log[c].received /\ ~Handling(c)) => log[c].responses = 1

\* the workers idleWorkers holds
IdleSet == {idleWorkers[i] : i \in 1..Len(idleWorkers)} \ {Hole}
\* the step is a dispatch (startWorker): a worker joins activeWorkers
Dispatches == Len(activeWorkers') > Len(activeWorkers)
Dispatched == activeWorkers'[Len(activeWorkers')]

\* C17: a dispatch takes its worker from idleWorkers whenever idleWorkers
\* holds one (the worker leaves idleWorkers, joins activeWorkers, and no
\* worker is created), and creates a worker only when idleWorkers holds
\* none; only the reclamation timer terminates workers.
C17_ReuseBeforeCreate ==
  [][ /\ Dispatches =>
           IF IdleSet # {}
           THEN /\ Dispatched \in IdleSet /\ Live(Dispatched)
                /\ Dispatched \notin IdleSet'
                /\ wstate' = wstate
           ELSE /\ wstate[Dispatched] = "none"
                /\ wstate' = [wstate EXCEPT ![Dispatched] = "ready"]
      /\ (\E w \in Workers : wstate[w] # "dead" /\ wstate'[w] = "dead") =>
           TimerFires
    ]_vars

\* a command was dispatched to the worker of an earlier command while the
\* timer had terminated another worker
C17_Witness ==
  \E c, d \in Calls :
    /\ c # d /\ log[c].sent /\ log[d].sent
    /\ log[c].worker = log[d].worker
    /\ \E w \in Workers : wstate[w] = "dead"

\* the commands worker w has been sent and has not been answered
InFlightAt(w) == {c \in Unanswered : log[c].worker = w}

\* C18: activeWorkers and idleWorkers are disjoint and hold no worker twice;
\* every worker in activeWorkers has exactly one command in flight and no
\* worker in idleWorkers has any.
C18_WorkerExclusivity ==
  /\ \A i, j \in 1..Len(activeWorkers) :
       i # j => activeWorkers[i] # activeWorkers[j]
  /\ \A i, j \in 1..Len(idleWorkers) :
       i # j => idleWorkers[i] # idleWorkers[j]
  /\ \A i \in 1..Len(activeWorkers) : activeWorkers[i] \notin IdleSet
  /\ \A i \in 1..Len(activeWorkers) :
       Cardinality(InFlightAt(activeWorkers[i])) = 1
  /\ \A w \in IdleSet : InFlightAt(w) = {}
  /\ \A w \in Workers : Len(inbox[w]) <= 1

\* C19: a command is posted only to a worker that is not terminated; a
\* worker the timer terminates was in idleWorkers and not in activeWorkers
\* when the timer fired and is in neither list afterwards; a terminated
\* worker stays out of both lists.
C19_NoDispatchToTerminated ==
  [][ /\ \A w \in Workers :
           Len(inbox'[w]) > Len(inbox[w]) => Live(w)'
      /\ \A w \in Workers :
           (wstate[w] # "dead" /\ wstate'[w] = "dead") =>
             /\ TimerFires
             /\ w \in IdleSet /\ w \notin IdleSet'
             /\ \A i \in 1..Len(activeWorkers) : activeWorkers[i] # w
             /\ inbox[w] = <<>>
      /\ \A w \in Workers :
           wstate'[w] = "dead" =>
             /\ w \notin IdleSet'
             /\ \A i \in 1..Len(activeWorkers') : activeWorkers'[i] # w
    ]_vars

\* the timer has terminated a worker and a command has just been posted to
\* a live one
C19_Witness ==
  /\ \E w \in Workers : wstate[w] = "dead"
  /\ ~timeout /\ arrivalAge = 0
  /\ \E c \in Unanswered : Live(log[c].worker) /\ inbox[log[c].worker] # <<>>

\* C20: a truncateFile (writeFile) call that dispatched a command and has
\* settled was settled by the response of that command.
C20_OwnResponse ==
  \A c \in Calls :
    (Done(c) /\ calls[c].op \in ExclusiveOps /\ log[c].sent) =>
      calls[c].by = c

====
